---- MODULE Spec2Model ----
(***************************************************************************)
(* A2A tax / invoice pipeline of MCP_A2A_session.                          *)
(*                                                                         *)
(*   a2a_agents.py : TaxAgent.execute, BillingAgent.execute (async         *)
(*                   generators yielding TaskStatusUpdateEvent)            *)
(*   a2a_demo.py   : TaxExpertAgent.process, InvoiceBotAgent.process,      *)
(*                   AgentOrchestrator.process_order (coroutines)          *)
(*                                                                         *)
(* Representation of Python values                                         *)
(*   str    [pytype |-> "str", chars |-> <<"P","a","r","i","s">>]          *)
(*   None   [pytype |-> "NoneType"]                                        *)
(*   money  an integer number of thousandths (2000 = 2.000), so that a     *)
(*          subtotal with three decimals is representable                  *)
(*   rate   an integer number of hundredths (8 = 0.08)                     *)
(*   dict   a record; d.get(k, default) is Get(d, k, default)              *)
(* round(x, 2) is Python's: nearest multiple of 0.01, ties to even,        *)
(* computed here on the exact decimal value.  A binary float that stands   *)
(* for a decimal tie lies just above or just below it and rounds to that   *)
(* side, so the claims about rounding are stated for either neighbour: a   *)
(* rounded amount is a whole number of hundredths within 0.005 of the      *)
(* value rounded.                                                          *)
(***************************************************************************)
EXTENDS Integers, Sequences, FiniteSets, TLC

VARIABLES
    \* ---- a2a_agents.py: one dispatched Task and the generator running it
    agent,        \* "TaxAgent" | "BillingAgent" | "none"
    task,         \* [id, input_data] of the dispatched Task
    gen_pc,       \* position of the async generator execute(task)
    updates,      \* the TaskStatusUpdateEvents yielded so far, in order
    gen_exc,      \* exception raised out of the generator, or "none"
    payload_read, \* TRUE once execute has read task.input_data
    \* ---- a2a_demo.py: orders running through one AgentOrchestrator
    order_data,   \* order -> the dict given to process_order
    pc,           \* order -> position of its process_order coroutine
    tax_in,       \* order -> argument of tax_agent.process
    tax_result,   \* order -> value tax_agent.process returned
    invoice_in,   \* order -> argument of invoice_agent.process
    invoice,      \* order -> value process_order returned
    error,        \* order -> exception raised out of process_order
    events,       \* order -> what happened to it so far, in order (history)
    overlapped,   \* order -> TRUE once its coroutine has resumed while another
                  \* order's coroutine was suspended (history)
    \* ---- mcp_store.py: the GlobalStore tools
    inventory,    \* the module-level dict INVENTORY
    last_call,    \* the latest tool call and the dict it returned
    num_calls,    \* tool calls made so far
    reserved      \* item -> total quantity of its successful reservations (history)

vars == <<agent, task, gen_pc, updates, gen_exc, payload_read,
          order_data, pc, tax_in, tax_result, invoice_in, invoice, error, events,
          overlapped, inventory, last_call, num_calls, reserved>>

storeVars == <<inventory, last_call, num_calls, reserved>>
execVars == <<agent, task, gen_pc, updates, gen_exc, payload_read>>
orchVars == <<order_data, pc, tax_in, tax_result, invoice_in, invoice, error, events,
          overlapped>>

----------------------------------------------------------------------------
\* Bounds of the model

\* subtotals 0 .. MaxSubtotal thousandths are enumerated (plus SampleSubtotals)
MaxSubtotal == 20
\* quantities 0 .. MaxQuantity
MaxQuantity == 5
\* orders processed concurrently through one orchestrator
NumOrders == 2
\* distinct values uuid4 can produce for the invoice identifier
NumInvoiceIds == 2
\* tool calls made to the store in one run
MaxCalls == 3
\* reservation quantities 0 .. MaxReserve are enumerated (plus SampleReserves)
MaxReserve == 3

----------------------------------------------------------------------------
\* Python strings

Str(cs) == [pytype |-> "str", chars |-> cs]
NoneValue == [pytype |-> "NoneType"]
IsStr(v) == v.pytype = "str"

Uppers == <<"A","B","C","D","E","F","G","H","I","J","K","L","M",
            "N","O","P","Q","R","S","T","U","V","W","X","Y","Z">>
Lowers == <<"a","b","c","d","e","f","g","h","i","j","k","l","m",
            "n","o","p","q","r","s","t","u","v","w","x","y","z">>

IsUpper(c) == \E i \in 1..Len(Uppers) : Uppers[i] = c
IsLower(c) == \E i \in 1..Len(Lowers) : Lowers[i] = c
IsCased(c) == IsUpper(c) \/ IsLower(c)

LowerChar(c) ==
    IF IsUpper(c) THEN Lowers[CHOOSE i \in 1..Len(Uppers) : Uppers[i] = c] ELSE c
UpperChar(c) ==
    IF IsLower(c) THEN Uppers[CHOOSE i \in 1..Len(Lowers) : Lowers[i] = c] ELSE c

\* str.lower()
Lower(cs) == [i \in 1..Len(cs) |-> LowerChar(cs[i])]

\* str.title(): a cased character is upper-cased when it follows an uncased
\* character (or starts the string) and lower-cased otherwise
Title(cs) ==
    [i \in 1..Len(cs) |->
        IF i = 1 \/ ~IsCased(cs[i-1]) THEN UpperChar(cs[i]) ELSE LowerChar(cs[i])]

\* `sub in s`
Contains(s, sub) ==
    \E k \in 0..(Len(s) - Len(sub)) :
        \A i \in 1..Len(sub) : s[k + i] = sub[i]

\* any(city in s for city in cities)
AnyIn(cities, s) == \E i \in 1..Len(cities) : Contains(s, cities[i])

\* dict.get(key, default)
Get(d, key, default) == IF key \in DOMAIN d THEN d[key] ELSE default

----------------------------------------------------------------------------
\* Numbers

\* The integer nearest n/d, ties to the even one (d # 0)
RoundHalfEven(n, d) ==
    LET nn == IF d < 0 THEN -n ELSE n
        dd == IF d < 0 THEN -d ELSE d
        q  == nn \div dd
        r  == nn % dd
    IN  IF 2 * r < dd THEN q
        ELSE IF 2 * r > dd THEN q + 1
        ELSE IF q % 2 = 0 THEN q ELSE q + 1

\* round(n/d thousandths, 2), in thousandths
Round2(n, d) == 10 * RoundHalfEven(n, 10 * d)

Abs(x) == IF x < 0 THEN -x ELSE x

----------------------------------------------------------------------------
\* a2a_agents.py: TaxAgent

TAX_RATES ==
    [US      |-> [rate |-> 8,  name |-> "Sales Tax"],
     CA      |-> [rate |-> 13, name |-> "HST/GST"],
     UK      |-> [rate |-> 20, name |-> "VAT"],
     EU      |-> [rate |-> 21, name |-> "VAT"],
     default |-> [rate |-> 10, name |-> "Tax"]]

c_new_york      == <<"n","e","w"," ","y","o","r","k">>
c_san_francisco == <<"s","a","n"," ","f","r","a","n","c","i","s","c","o">>
c_chicago       == <<"c","h","i","c","a","g","o">>
c_toronto       == <<"t","o","r","o","n","t","o">>
c_vancouver     == <<"v","a","n","c","o","u","v","e","r">>
c_london        == <<"l","o","n","d","o","n">>
c_manchester    == <<"m","a","n","c","h","e","s","t","e","r">>
c_paris         == <<"p","a","r","i","s">>
c_berlin        == <<"b","e","r","l","i","n">>
c_rome          == <<"r","o","m","e">>

US_CITIES == <<c_new_york, c_san_francisco, c_chicago>>
CA_CITIES == <<c_toronto, c_vancouver>>
UK_CITIES == <<c_london, c_manchester>>
EU_CITIES == <<c_paris, c_berlin, c_rome>>

\* TaxAgent._determine_region(destination), destination a str
DetermineRegion(destination) ==
    LET dest_lower == Lower(destination)
    IN  IF AnyIn(US_CITIES, dest_lower) THEN "US"
        ELSE IF AnyIn(CA_CITIES, dest_lower) THEN "CA"
        ELSE IF AnyIn(UK_CITIES, dest_lower) THEN "UK"
        ELSE IF AnyIn(EU_CITIES, dest_lower) THEN "EU"
        ELSE "US"

\* Faulty variant: the total is the unrounded sum
TaxDictUnrounded(product, quantity, subtotal, region, tax_info, destination) ==
    LET tax_amount == Round2(subtotal * tax_info.rate, 100)
        total      == subtotal + tax_amount
    IN  [product      |-> product,
         quantity     |-> quantity,
         subtotal     |-> subtotal,
         tax_region   |-> region,
         tax_type     |-> tax_info.name,
         tax_rate     |-> tax_info.rate,
         tax_amount   |-> tax_amount,
         total_amount |-> total,
         destination  |-> destination]

\* The tax_result dict both tax agents build from the values they extracted
TaxDict(product, quantity, subtotal, region, tax_info, destination) ==
    LET tax_amount == Round2(subtotal * tax_info.rate, 100)
        total      == Round2(subtotal + tax_amount, 1)
    IN  [product      |-> product,
         quantity     |-> quantity,
         subtotal     |-> subtotal,
         tax_region   |-> region,
         tax_type     |-> tax_info.name,
         tax_rate     |-> tax_info.rate,
         tax_amount   |-> tax_amount,
         total_amount |-> total,
         destination  |-> destination]

Returns(v) == [ok |-> TRUE, value |-> v]
Raises(e)  == [ok |-> FALSE, exc |-> e]

\* The body of TaxAgent.execute between its two yields: the tax_result, or
\* the exception destination.lower() raises on a destination that is no str
TaxAgentCompute(input_data) ==
    LET subtotal    == Get(input_data, "subtotal", 0)
        destination == Get(input_data, "destination", Str(<<"U","S">>))
        product     == Get(input_data, "product",
                           Str(<<"U","n","k","n","o","w","n">>))
        quantity    == Get(input_data, "quantity", 1)
    IN  IF ~IsStr(destination) THEN Raises("AttributeError")
        ELSE LET region   == DetermineRegion(destination.chars)
                 tax_info == Get(TAX_RATES, region, TAX_RATES["default"])
             IN  Returns(TaxDict(product, quantity, subtotal, region,
                                 tax_info, destination))

----------------------------------------------------------------------------
\* a2a_agents.py: BillingAgent

\* Faulty variant: the unit price is truncated to 2 decimals instead of rounded
InvoiceDictTruncating(invoice_id, data) ==
    LET product     == Get(data, "product", Str(<<"P","r","o","d","u","c","t">>))
        quantity    == Get(data, "quantity", 1)
        subtotal    == Get(data, "subtotal", 0)
        tax_amount  == Get(data, "tax_amount", 0)
        total       == Get(data, "total_amount", 0)
        destination == Get(data, "destination", Str(<< >>))
    IN  [invoice_id |-> invoice_id,
         date       |-> "2024-02-08",
         line_items |-> << [description |-> Str(Title(product.chars)),
                            quantity    |-> quantity,
                            unit_price  |-> 10 * (subtotal \div (10 * quantity)),
                            amount      |-> subtotal] >>,
         subtotal   |-> subtotal,
         tax        |-> [type   |-> Get(data, "tax_type", "Tax"),
                         rate   |-> Get(data, "tax_rate", 0),
                         amount |-> tax_amount],
         total      |-> total,
         ship_to    |-> destination,
         status     |-> "ISSUED",
         summary    |-> <<"Invoice", invoice_id, "generated for", product,
                          "order", total>>]

\* The invoice dict both invoice agents build; quantity # 0
InvoiceDict(invoice_id, data) ==
    LET product     == Get(data, "product", Str(<<"P","r","o","d","u","c","t">>))
        quantity    == Get(data, "quantity", 1)
        subtotal    == Get(data, "subtotal", 0)
        tax_amount  == Get(data, "tax_amount", 0)
        total       == Get(data, "total_amount", 0)
        destination == Get(data, "destination", Str(<< >>))
    IN  [invoice_id |-> invoice_id,
         date       |-> "2024-02-08",
         line_items |-> << [description |-> Str(Title(product.chars)),
                            quantity    |-> quantity,
                            unit_price  |-> Round2(subtotal, quantity),
                            amount      |-> subtotal] >>,
         subtotal   |-> subtotal,
         tax        |-> [type   |-> Get(data, "tax_type", "Tax"),
                         rate   |-> Get(data, "tax_rate", 0),
                         amount |-> tax_amount],
         total      |-> total,
         ship_to    |-> destination,
         status     |-> "ISSUED",
         summary    |-> <<"Invoice", invoice_id, "generated for", product,
                          "order", total>>]

\* The body of BillingAgent.execute between its two yields: the invoice, or
\* the exception subtotal / quantity raises on a quantity of 0
BillingAgentCompute(invoice_id, data) ==
    IF Get(data, "quantity", 1) = 0 THEN Raises("ZeroDivisionError")
    ELSE Returns(InvoiceDict(invoice_id, data))

----------------------------------------------------------------------------
\* a2a_demo.py: TaxExpertAgent, InvoiceBotAgent

DEMO_TAX_RATES ==
    [US      |-> [rate |-> 8,  name |-> "Sales Tax"],
     CA      |-> [rate |-> 13, name |-> "HST/GST"],
     UK      |-> [rate |-> 20, name |-> "VAT"],
     EU      |-> [rate |-> 21, name |-> "VAT"],
     default |-> [rate |-> 10, name |-> "Tax"]]

\* The region chain of TaxExpertAgent.process, destination a str
DemoRegion(destination) ==
    LET dest_lower == Lower(destination)
    IN  IF Contains(dest_lower, c_new_york) \/ Contains(dest_lower, c_chicago)
            THEN "US"
        ELSE IF Contains(dest_lower, c_toronto) THEN "CA"
        ELSE IF Contains(dest_lower, c_london) THEN "UK"
        ELSE "US"

\* TaxExpertAgent.process(order_data) after its sleep
TaxExpertProcess(data) ==
    LET subtotal    == Get(data, "subtotal", 0)
        destination == Get(data, "destination", Str(<<"U","S">>))
        product     == Get(data, "product",
                           Str(<<"U","n","k","n","o","w","n">>))
        quantity    == Get(data, "quantity", 1)
    IN  IF ~IsStr(destination) THEN Raises("AttributeError")
        ELSE LET region   == DemoRegion(destination.chars)
                 tax_info == Get(DEMO_TAX_RATES, region, DEMO_TAX_RATES["default"])
             IN  Returns(TaxDict(product, quantity, subtotal, region,
                                 tax_info, destination))

\* InvoiceBotAgent.process(tax_data) after its sleep
InvoiceBotProcess(invoice_id, tax_data) ==
    IF Get(tax_data, "quantity", 1) = 0 THEN Raises("ZeroDivisionError")
    ELSE Returns(InvoiceDict(invoice_id, tax_data))

----------------------------------------------------------------------------
\* Inputs

\* values uuid.uuid4() can take
Uuids == 1..NumInvoiceIds

Destinations ==
    { Str(<<"N","e","w"," ","Y","o","r","k">>),
      Str(<<"C","H","I","C","A","G","O">>),
      Str(<<"S","a","n"," ","F","r","a","n","c","i","s","c","o">>),
      Str(<<"T","o","r","o","n","t","o">>),
      Str(<<"V","a","n","c","o","u","v","e","r">>),
      Str(<<"L","o","n","d","o","n">>),
      Str(<<"M","a","n","c","h","e","s","t","e","r">>),
      Str(<<"P","a","r","i","s">>),
      Str(<<"b","e","r","l","i","n">>),
      Str(<<"J","e","r","o","m","e">>),
      Str(<<"U","n","k","n","o","w","n"," ","C","i","t","y">>),
      Str(<<"P","a","r","i","s",","," ","N","e","w"," ","Y","o","r","k">>),
      Str(<<"L","o","n","d","o","n","/","T","o","r","o","n","t","o">>),
      Str(<< >>),
      NoneValue }

Products ==
    { Str(<<"l","a","p","t","o","p">>),
      Str(<<"U","S","B"," ","h","u","b">>) }

\* 100.000, 2000.000 (the demo's order), 10.005
SampleSubtotals == {100000, 2000000, 10005}
Subtotals == (0..MaxSubtotal) \cup SampleSubtotals
Quantities == 0..MaxQuantity

\* The order dicts a caller passes: quantity and destination may be absent
OrderPayloads ==
    { [product |-> p, subtotal |-> s, quantity |-> q, destination |-> d] :
        p \in Products, s \in Subtotals, q \in Quantities, d \in Destinations }
    \cup
    { [product |-> p, subtotal |-> s, destination |-> d] :
        p \in Products, s \in Subtotals, d \in Destinations }
    \cup
    { [product |-> p, subtotal |-> s, quantity |-> q] :
        p \in Products, s \in Subtotals, q \in Quantities }

\* What a BillingAgent task carries: the output of the tax agent, or a raw order
BillingPayloads ==
    { TaxAgentCompute(o).value : o \in { x \in OrderPayloads : TaxAgentCompute(x).ok } }
    \cup OrderPayloads

NoTask == [id |-> "none", input_data |-> << >>]

----------------------------------------------------------------------------
\* a2a_agents.py: execute(task), an async generator.  Each action is one
\* __anext__() of the consumer: the generator runs to its next yield, to the
\* exception it raises, or to its end.

StatusUpdate(task_id, status, artifacts) ==
    [task_id |-> task_id, status |-> status, artifacts |-> artifacts]

Artifact(id, type, data) == [id |-> id, type |-> type, data |-> data]

\* TaxAgent.execute up to its first yield
TaxExecuteStart ==
    /\ agent = "TaxAgent"
    /\ gen_pc = "created"
    /\ updates' = Append(updates, StatusUpdate(task.id, "IN_PROGRESS", << >>))
    /\ gen_pc' = "in_progress"
    /\ UNCHANGED <<agent, task, gen_exc, payload_read>>
    /\ UNCHANGED <<orchVars, storeVars>>

\* TaxAgent.execute from its first yield to its second, or to the exception
TaxExecuteResume ==
    /\ agent = "TaxAgent"
    /\ gen_pc = "in_progress"
    /\ payload_read' = TRUE
    /\ LET r == TaxAgentCompute(task.input_data)
       IN  IF r.ok
           THEN /\ \E artifact_id \in Uuids :
                     updates' = Append(updates,
                         StatusUpdate(task.id, "COMPLETED",
                             << Artifact(artifact_id, "tax_calculation", r.value) >>))
                /\ gen_pc' = "completed"
                /\ UNCHANGED gen_exc
           ELSE /\ gen_exc' = r.exc
                /\ gen_pc' = "raised"
                /\ UNCHANGED updates
    /\ UNCHANGED <<agent, task>>
    /\ UNCHANGED <<orchVars, storeVars>>

\* Faulty variant: execute extracts the order data before it yields IN_PROGRESS
BillingExecuteStartEager ==
    /\ agent = "BillingAgent"
    /\ gen_pc = "created"
    /\ payload_read' = TRUE
    /\ updates' = Append(updates, StatusUpdate(task.id, "IN_PROGRESS", << >>))
    /\ gen_pc' = "in_progress"
    /\ UNCHANGED <<agent, task, gen_exc>>
    /\ UNCHANGED <<orchVars, storeVars>>

\* BillingAgent.execute up to its first yield
BillingExecuteStart ==
    /\ agent = "BillingAgent"
    /\ gen_pc = "created"
    /\ updates' = Append(updates, StatusUpdate(task.id, "IN_PROGRESS", << >>))
    /\ gen_pc' = "in_progress"
    /\ UNCHANGED <<agent, task, gen_exc, payload_read>>
    /\ UNCHANGED <<orchVars, storeVars>>

\* BillingAgent.execute from its first yield to its second, or to the exception
BillingExecuteResume ==
    /\ agent = "BillingAgent"
    /\ gen_pc = "in_progress"
    /\ payload_read' = TRUE
    /\ \E invoice_id \in Uuids :
         LET r == BillingAgentCompute(invoice_id, task.input_data)
         IN  IF r.ok
             THEN /\ \E artifact_id \in Uuids :
                       updates' = Append(updates,
                           StatusUpdate(task.id, "COMPLETED",
                               << Artifact(artifact_id, "invoice", r.value) >>))
                  /\ gen_pc' = "completed"
                  /\ UNCHANGED gen_exc
             ELSE /\ gen_exc' = r.exc
                  /\ gen_pc' = "raised"
                  /\ UNCHANGED updates
    /\ UNCHANGED <<agent, task>>
    /\ UNCHANGED <<orchVars, storeVars>>

\* Either execute after its COMPLETED yield: the function body ends
ExecuteExhaust ==
    /\ gen_pc = "completed"
    /\ gen_pc' = "exhausted"
    /\ UNCHANGED <<agent, task, updates, gen_exc, payload_read>>
    /\ UNCHANGED <<orchVars, storeVars>>

----------------------------------------------------------------------------
\* a2a_demo.py: AgentOrchestrator.process_order(order_data), a coroutine.
\* Each action runs one order's coroutine from one suspension point (the
\* asyncio.sleep of the agent it awaits) to the next, or to its end.

Orders == DOMAIN order_data
Unset == [pytype |-> "unset"]

\* Faulty variant: the agent keeps the payload in an attribute all calls share, so
\* a resumed call reads the payload of some call in flight
TaxFrameDataShared(o) == tax_in[CHOOSE other \in Orders : tax_in[other] # Unset]

\* The order_data a resumed TaxExpertAgent.process reads: its own argument
TaxFrameData(o) == tax_in[o]

\* The tax_data a resumed InvoiceBotAgent.process reads: its own argument
InvoiceFrameData(o) == invoice_in[o]

\* process_order line 167: what it hands to tax_agent.process
TaxArgument(o) == order_data[o]

\* Faulty variant: the invoice agent is handed the caller's payload
InvoiceArgumentRaw(o, tr) == order_data[o]

\* process_order line 172: what it hands to invoice_agent.process, tr being the
\* value tax_agent.process returned
InvoiceArgument(o, tr) == tr

\* process_order line 175: what it returns, inv being the value
\* invoice_agent.process returned
ReturnValue(o, inv) == inv

Suspended(o) == pc[o] \in {"tax_sleep", "invoice_sleep"}

Overlap(o) ==
    overlapped' = [overlapped EXCEPT
                     ![o] = @ \/ \E other \in Orders \ {o} : Suspended(other)]

\* process_order is called: it calls tax_agent.process(order_data), which
\* suspends in asyncio.sleep
ProcessOrder(o) ==
    /\ pc[o] = "pending"
    /\ tax_in' = [tax_in EXCEPT ![o] = TaxArgument(o)]
    /\ events' = [events EXCEPT ![o] = Append(@, "tax_start")]
    /\ pc' = [pc EXCEPT ![o] = "tax_sleep"]
    /\ UNCHANGED <<order_data, tax_result, invoice_in, invoice, error, overlapped>>
    /\ UNCHANGED <<execVars, storeVars>>

\* Faulty variant: process_order catches the tax agent's exception and goes on to
\* the invoice agent with the caller's payload
TaxProcessWakeSwallow(o) ==
    /\ pc[o] = "tax_sleep"
    /\ LET r == TaxExpertProcess(TaxFrameData(o))
       IN  IF r.ok
           THEN /\ tax_result' = [tax_result EXCEPT ![o] = r.value]
                /\ invoice_in' = [invoice_in EXCEPT ![o] = InvoiceArgument(o, tax_result'[o])]
                /\ events' = [events EXCEPT ![o] = @ \o <<"tax_end", "invoice_start">>]
           ELSE /\ invoice_in' = [invoice_in EXCEPT ![o] = order_data[o]]
                /\ events' = [events EXCEPT ![o] = @ \o <<"tax_raise", "invoice_start">>]
                /\ UNCHANGED tax_result
    /\ pc' = [pc EXCEPT ![o] = "invoice_sleep"]
    /\ Overlap(o)
    /\ UNCHANGED <<order_data, tax_in, invoice, error>>
    /\ UNCHANGED <<execVars, storeVars>>

\* Faulty variant: the tax agent writes its result into the dict it was given
\* (order_data.update(...)) instead of building a new one
TaxProcessWakeInPlace(o) ==
    /\ pc[o] = "tax_sleep"
    /\ LET r == TaxExpertProcess(TaxFrameData(o))
       IN  IF r.ok
           THEN /\ order_data' = [order_data EXCEPT ![o] = r.value]
                /\ tax_result' = [tax_result EXCEPT ![o] = r.value]
                /\ invoice_in' = [invoice_in EXCEPT ![o] = InvoiceArgument(o, tax_result'[o])]
                /\ events' = [events EXCEPT ![o] = @ \o <<"tax_end", "invoice_start">>]
                /\ pc' = [pc EXCEPT ![o] = "invoice_sleep"]
                /\ UNCHANGED error
           ELSE /\ error' = [error EXCEPT ![o] = r.exc]
                /\ events' = [events EXCEPT ![o] = Append(@, "tax_raise")]
                /\ pc' = [pc EXCEPT ![o] = "raised"]
                /\ UNCHANGED <<order_data, tax_result, invoice_in>>
    /\ Overlap(o)
    /\ UNCHANGED <<tax_in, invoice>>
    /\ UNCHANGED <<execVars, storeVars>>

\* tax_agent.process resumes and returns or raises; on a return process_order
\* calls invoice_agent.process(tax_result), which suspends in asyncio.sleep
TaxProcessWake(o) ==
    /\ pc[o] = "tax_sleep"
    /\ LET r == TaxExpertProcess(TaxFrameData(o))
       IN  IF r.ok
           THEN /\ tax_result' = [tax_result EXCEPT ![o] = r.value]
                /\ invoice_in' = [invoice_in EXCEPT ![o] = InvoiceArgument(o, tax_result'[o])]
                /\ events' = [events EXCEPT ![o] = @ \o <<"tax_end", "invoice_start">>]
                /\ pc' = [pc EXCEPT ![o] = "invoice_sleep"]
                /\ UNCHANGED error
           ELSE /\ error' = [error EXCEPT ![o] = r.exc]
                /\ events' = [events EXCEPT ![o] = Append(@, "tax_raise")]
                /\ pc' = [pc EXCEPT ![o] = "raised"]
                /\ UNCHANGED <<tax_result, invoice_in>>
    /\ Overlap(o)
    /\ UNCHANGED <<order_data, tax_in, invoice>>
    /\ UNCHANGED <<execVars, storeVars>>

\* invoice_agent.process resumes and returns or raises; on a return
\* process_order returns the invoice
InvoiceProcessWake(o) ==
    /\ pc[o] = "invoice_sleep"
    /\ \E invoice_id \in Uuids :
         LET r == InvoiceBotProcess(invoice_id, InvoiceFrameData(o))
         IN  IF r.ok
             THEN /\ invoice' = [invoice EXCEPT ![o] = ReturnValue(o, r.value)]
                  /\ events' = [events EXCEPT ![o] = Append(@, "invoice_end")]
                  /\ pc' = [pc EXCEPT ![o] = "returned"]
                  /\ UNCHANGED error
             ELSE /\ error' = [error EXCEPT ![o] = r.exc]
                  /\ events' = [events EXCEPT ![o] = Append(@, "invoice_raise")]
                  /\ pc' = [pc EXCEPT ![o] = "raised"]
                  /\ UNCHANGED invoice
    /\ Overlap(o)
    /\ UNCHANGED <<order_data, tax_in, tax_result, invoice_in>>
    /\ UNCHANGED <<execVars, storeVars>>

----------------------------------------------------------------------------
\* mcp_store.py: the GlobalStore tools.  Each action is one tool call.

k_laptop   == <<"l","a","p","t","o","p">>
k_monitor  == <<"m","o","n","i","t","o","r">>
k_keyboard == <<"k","e","y","b","o","a","r","d">>
k_mouse    == <<"m","o","u","s","e">>

\* The module-level dict as the import leaves it
INVENTORY ==
    (k_laptop   :> [stock |-> 5,  price |-> 1000, sku |-> "LAP-001"]) @@
    (k_monitor  :> [stock |-> 2,  price |-> 300,  sku |-> "MON-001"]) @@
    (k_keyboard :> [stock |-> 15, price |-> 80,   sku |-> "KEY-001"]) @@
    (k_mouse    :> [stock |-> 20, price |-> 25,   sku |-> "MOU-001"])

\* check_stock(item_name), reading the dict inv
CheckStockResult(inv, item_name) ==
    LET item == Lower(item_name)
    IN  IF item \in DOMAIN inv
        THEN LET product == inv[item]
             IN  [product   |-> item_name,
                  sku       |-> product.sku,
                  stock     |-> product.stock,
                  price     |-> product.price,
                  available |-> product.stock > 0,
                  message   |-> <<Title(item_name), "is in stock!">>]
        ELSE [product   |-> item_name,
              available |-> FALSE,
              message   |-> <<"Product", item_name, "not found in inventory">>]

\* reserve_item(item_name, quantity), reading the dict inv
ReserveItemResult(inv, item_name, quantity) ==
    LET item == Lower(item_name)
    IN  IF item \notin DOMAIN inv
        THEN [success |-> FALSE,
              message |-> <<"Product", item_name, "not found">>]
        ELSE LET product == inv[item]
             IN  IF product.stock >= quantity
                 THEN [success    |-> TRUE,
                       product    |-> item_name,
                       quantity   |-> quantity,
                       sku        |-> product.sku,
                       unit_price |-> product.price,
                       subtotal   |-> product.price * quantity,
                       message    |-> <<"Reserved", quantity, Title(item_name)>>]
                 ELSE [success   |-> FALSE,
                       product   |-> item_name,
                       requested |-> quantity,
                       available |-> product.stock,
                       message   |-> <<"Only", product.stock, "units available">>]

\* The item names a client sends: known ones in several cases, an unknown one
ItemNames ==
    { <<"L","a","p","t","o","p">>,
      <<"M","O","N","I","T","O","R">>,
      <<"m","o","u","s","e">>,
      <<"t","a","b","l","e","t">> }

\* quantities next to the stock counts 5 and 20
SampleReserves == {5, 6, 21}
ReserveQuantities == (0..MaxReserve) \cup SampleReserves

NoCall == [tool |-> "none"]

StoreInit ==
    /\ inventory = INVENTORY
    /\ last_call = NoCall
    /\ num_calls = 0
    /\ reserved = [item \in DOMAIN INVENTORY |-> 0]

\* Faulty variant: a successful reservation takes the quantity off the stock
InventoryAfterReserveTaking(item_name, quantity) ==
    IF ReserveItemResult(inventory, item_name, quantity).success
    THEN [inventory EXCEPT ![Lower(item_name)].stock = @ - quantity]
    ELSE inventory

\* What reserve_item does to INVENTORY: nothing ("Simulate reservation")
InventoryAfterReserve(item_name, quantity) == inventory

\* A client calls check_stock
CheckStock(item_name) ==
    /\ num_calls < MaxCalls
    /\ num_calls' = num_calls + 1
    /\ last_call' = [tool      |-> "check_stock",
                     item_name |-> item_name,
                     result    |-> CheckStockResult(inventory, item_name)]
    /\ UNCHANGED <<inventory, reserved>>
    /\ UNCHANGED <<execVars, orchVars>>

\* A client calls reserve_item
ReserveItem(item_name, quantity) ==
    /\ num_calls < MaxCalls
    /\ num_calls' = num_calls + 1
    /\ LET result == ReserveItemResult(inventory, item_name, quantity)
       IN  /\ last_call' = [tool      |-> "reserve_item",
                            item_name |-> item_name,
                            quantity  |-> quantity,
                            result    |-> result]
           /\ reserved' = IF result.success
                          THEN [reserved EXCEPT ![Lower(item_name)] = @ + quantity]
                          ELSE reserved
    /\ inventory' = InventoryAfterReserve(item_name, quantity)
    /\ UNCHANGED <<execVars, orchVars>>

----------------------------------------------------------------------------
\* Specifications

ExecIdle ==
    /\ agent = "none"
    /\ task = NoTask
    /\ gen_pc = "idle"
    /\ updates = << >>
    /\ gen_exc = "none"
    /\ payload_read = FALSE

OrchInit(ids, payloads) ==
    /\ order_data \in [ids -> payloads]
    /\ pc = [o \in ids |-> "pending"]
    /\ tax_in = [o \in ids |-> Unset]
    /\ tax_result = [o \in ids |-> Unset]
    /\ invoice_in = [o \in ids |-> Unset]
    /\ invoice = [o \in ids |-> Unset]
    /\ error = [o \in ids |-> "none"]
    /\ events = [o \in ids |-> << >>]
    /\ overlapped = [o \in ids |-> FALSE]

\* A Task has been created and handed to one of the two executors
InitExec ==
    /\ agent \in {"TaxAgent", "BillingAgent"}
    /\ task \in { [id |-> "task-1", input_data |-> p] :
                    p \in IF agent = "TaxAgent" THEN OrderPayloads
                                                ELSE BillingPayloads }
    /\ gen_pc = "created"
    /\ updates = << >>
    /\ gen_exc = "none"
    /\ payload_read = FALSE
    /\ OrchInit({}, OrderPayloads)
    /\ StoreInit

\* One order is about to go through the orchestrator
InitOrder ==
    /\ ExecIdle
    /\ OrchInit({1}, OrderPayloads)
    /\ StoreInit

Init == InitExec \/ InitOrder

Next ==
    \/ TaxExecuteStart
    \/ TaxExecuteResume
    \/ BillingExecuteStart
    \/ BillingExecuteResume
    \/ ExecuteExhaust
    \/ \E o \in Orders : ProcessOrder(o)
    \/ \E o \in Orders : TaxProcessWake(o)
    \/ \E o \in Orders : InvoiceProcessWake(o)

Spec == Init /\ [][Next]_vars

\* The orders of the concurrent runs: one that succeeds in each region the
\* demo knows, one whose invoice stage raises, one whose tax stage raises
ConcurrentPayloads ==
    { [product |-> Str(<<"l","a","p","t","o","p">>), subtotal |-> 2000000,
       quantity |-> 2, destination |-> Str(<<"N","e","w"," ","Y","o","r","k">>)],
      [product |-> Str(<<"U","S","B"," ","h","u","b">>), subtotal |-> 10005,
       quantity |-> 3, destination |-> Str(<<"L","o","n","d","o","n">>)],
      [product |-> Str(<<"l","a","p","t","o","p">>), subtotal |-> 100000,
       destination |-> Str(<<"T","o","r","o","n","t","o">>)],
      [product |-> Str(<<"l","a","p","t","o","p">>), subtotal |-> 7,
       quantity |-> 0, destination |-> Str(<<"P","a","r","i","s">>)],
      [product |-> Str(<<"U","S","B"," ","h","u","b">>), subtotal |-> 100000,
       quantity |-> 1, destination |-> NoneValue] }

InitConcurrent ==
    /\ ExecIdle
    /\ OrchInit(1..NumOrders, ConcurrentPayloads)
    /\ StoreInit

NextOrch ==
    \/ \E o \in Orders : ProcessOrder(o)
    \/ \E o \in Orders : TaxProcessWake(o)
    \/ \E o \in Orders : InvoiceProcessWake(o)

SpecConcurrent == InitConcurrent /\ [][NextOrch]_vars

\* The store serving a sequence of tool calls
InitStore ==
    /\ ExecIdle
    /\ OrchInit({}, OrderPayloads)
    /\ StoreInit

NextStore ==
    \/ \E item_name \in ItemNames : CheckStock(item_name)
    \/ \E item_name \in ItemNames, quantity \in ReserveQuantities :
          ReserveItem(item_name, quantity)

SpecStore == InitStore /\ [][NextStore]_vars

----------------------------------------------------------------------------
\* Claims

Terminal(status) == status \in {"COMPLETED", "FAILED"}
GeneratorEnded == gen_pc \in {"exhausted", "raised"}

\* A payload whose fields have the types section 6 of the spec gives them
WellTyped(data) == IsStr(Get(data, "destination", Str(<< >>)))

\* C1: once execute has ended (its body finished or an exception left it), the
\* updates it produced, for every well-typed payload (a quantity of 0
\* included), end with a COMPLETED or FAILED update, and that update is the
\* only terminal one.
C1_ExactlyOneTerminalUpdate ==
    (GeneratorEnded /\ WellTyped(task.input_data)) =>
        /\ Len(updates) >= 1
        /\ Terminal(updates[Len(updates)].status)
        /\ \A i \in 1..(Len(updates) - 1) : ~Terminal(updates[i].status)

\* C2: when the invoice stage of process_order has received a payload whose
\* quantity is 0 and has ended, the order has failed in the invoice stage and
\* the exception that leaves process_order is InvalidInputError or the
\* StageFailedError that wraps it.
C2_ZeroQuantityIsInvalidInput ==
    \A o \in Orders :
        (/\ pc[o] \in {"returned", "raised"}
         /\ invoice_in[o] # Unset
         /\ Get(invoice_in[o], "quantity", 1) = 0)
        => /\ pc[o] = "raised"
           /\ events[o][Len(events[o])] = "invoice_raise"
           /\ error[o] \in {"InvalidInputError", "StageFailedError"}

Before(evs, a, b) ==
    \A i \in 1..Len(evs) : evs[i] = b => \E j \in 1..(i - 1) : evs[j] = a
Occurs(evs, a) == \E i \in 1..Len(evs) : evs[i] = a

\* C3: the invoice stage starts only after the tax stage has ended, the tax
\* stage receives the caller's payload, the invoice stage receives exactly the
\* dict the tax stage returned, and process_order returns what the invoice
\* stage returned.
C3_SequentialHandoff ==
    \A o \in Orders :
        /\ Before(events[o], "tax_start", "tax_end")
        /\ Before(events[o], "tax_end", "invoice_start")
        /\ Before(events[o], "invoice_start", "invoice_end")
        /\ tax_in[o] # Unset => tax_in[o] = order_data[o]
        /\ Occurs(events[o], "invoice_start") =>
              /\ TaxExpertProcess(order_data[o]).ok
              /\ invoice_in[o] = TaxExpertProcess(order_data[o]).value
        /\ pc[o] = "returned" =>
              /\ Occurs(events[o], "invoice_end")
              /\ \E id \in Uuids :
                    invoice[o] = InvoiceBotProcess(id, invoice_in[o]).value
        /\ invoice[o] # Unset => pc[o] = "returned"

\* C3 witness: an order went through both stages and its invoice carries tax
C3_Witness ==
    \E o \in Orders :
        /\ pc[o] = "returned"
        /\ invoice[o].tax.amount > 0
        /\ invoice[o].total > invoice[o].subtotal

\* C4: when a stage raises, no later stage is invoked for the order, the
\* caller gets the exception and process_order returns nothing.
C4_FailureHaltsPipeline ==
    \A o \in Orders :
        /\ Occurs(events[o], "tax_raise") =>
              /\ ~Occurs(events[o], "invoice_start")
              /\ invoice_in[o] = Unset
              /\ tax_result[o] = Unset
              /\ events[o][Len(events[o])] = "tax_raise"
        /\ Occurs(events[o], "invoice_raise") =>
              events[o][Len(events[o])] = "invoice_raise"
        /\ (Occurs(events[o], "tax_raise") \/ Occurs(events[o], "invoice_raise")) =>
              /\ pc[o] = "raised"
              /\ error[o] # "none"
              /\ invoice[o] = Unset
        /\ pc[o] = "raised" <=> error[o] # "none"

\* C4 witness: the tax stage raised
C4_Witness ==
    \E o \in Orders :
        /\ pc[o] = "raised"
        /\ Occurs(events[o], "tax_raise")
        /\ error[o] = "AttributeError"

\* The tax results and the invoices produced so far, by either implementation
ProducedTaxResults ==
    (IF agent = "TaxAgent" /\ Len(updates) = 2
        THEN {updates[2].artifacts[1].data} ELSE {})
    \cup { tax_result[o] : o \in { x \in Orders : tax_result[x] # Unset } }

ProducedInvoices ==
    (IF agent = "BillingAgent" /\ Len(updates) = 2
        THEN {updates[2].artifacts[1].data} ELSE {})
    \cup { invoice[o] : o \in { x \in Orders : invoice[x] # Unset } }

RegionLists == << <<"US", US_CITIES>>, <<"CA", CA_CITIES>>,
                  <<"UK", UK_CITIES>>, <<"EU", EU_CITIES>> >>

\* The region of the first list, in the order US, CA, UK, EU, one of whose
\* cities occurs in the lower-cased destination; US when none does
ClaimedRegion(destination) ==
    LET matching == { i \in 1..Len(RegionLists) :
                        AnyIn(RegionLists[i][2], Lower(destination)) }
    IN  IF matching = {} THEN "US"
        ELSE RegionLists[CHOOSE i \in matching : \A j \in matching : i <= j][1]

\* C6: every tax result, of TaxAgent.execute and of TaxExpertAgent.process,
\* carries the region the priority-ordered match US, CA, UK, EU gives its
\* destination (Paris alone gives EU; Paris with New York gives US).
C6_PriorityOrderedRegion ==
    \A d \in ProducedTaxResults :
        d.tax_region = ClaimedRegion(d.destination.chars)

\* C7 as claimed: in every tax result the rate is the table's rate of the
\* region, tax_amount = round(subtotal * rate, 2) and
\* total_amount = subtotal + tax_amount exactly.
C7_TotalIsExactSum ==
    \A d \in ProducedTaxResults :
        /\ d.tax_rate = TAX_RATES[d.tax_region].rate
        /\ d.tax_amount = Round2(d.subtotal * d.tax_rate, 100)
        /\ d.total_amount = d.subtotal + d.tax_amount

\* C7 amended: in every tax result the rate is the table's rate of the region,
\* tax_amount is a whole number of hundredths within 0.005 of subtotal * rate,
\* and total_amount is a whole number of hundredths within 0.005 of
\* subtotal + tax_amount (it is round(subtotal + tax_amount, 2), not the sum).
C7_TotalIsRoundedSum ==
    \A d \in ProducedTaxResults :
        /\ d.tax_rate = TAX_RATES[d.tax_region].rate
        /\ d.tax_amount % 10 = 0
        /\ Abs(100 * d.tax_amount - d.subtotal * d.tax_rate) <= 500
        /\ d.total_amount % 10 = 0
        /\ Abs(d.total_amount - (d.subtotal + d.tax_amount)) <= 5

\* C7 witness: a tax result with tax whose total is not the exact sum
C7_Witness ==
    \E d \in ProducedTaxResults :
        /\ d.tax_amount > 0
        /\ d.total_amount # d.subtotal + d.tax_amount

\* C8 as claimed: in every invoice with quantity >= 1,
\* |unit_price * quantity - subtotal| <= 0.01.
C8_WithinOneCent ==
    \A inv \in ProducedInvoices :
        LET item == inv.line_items[1]
        IN  item.quantity >= 1 =>
                Abs(item.unit_price * item.quantity - inv.subtotal) <= 10

\* C8 amended: in every invoice with quantity >= 1, unit_price is a whole
\* number of hundredths within 0.005 of subtotal / quantity, so
\* |unit_price * quantity - subtotal| <= 0.005 * quantity.
C8_WithinHalfCentPerUnit ==
    \A inv \in ProducedInvoices :
        LET item == inv.line_items[1]
        IN  item.quantity >= 1 =>
                /\ item.unit_price % 10 = 0
                /\ item.amount = inv.subtotal
                /\ Abs(item.unit_price * item.quantity - inv.subtotal)
                       <= 5 * item.quantity

\* C8 witness: an invoice whose line item is off by more than 0.01
C8_Witness ==
    \E inv \in ProducedInvoices :
        LET item == inv.line_items[1]
        IN  /\ item.quantity >= 1
            /\ Abs(item.unit_price * item.quantity - inv.subtotal) > 10

\* What process_order gives an order processed alone (invoice identifier 0)
AloneOutcome(data) ==
    LET t == TaxExpertProcess(data)
    IN  IF t.ok THEN InvoiceBotProcess(0, t.value) ELSE t

\* An invoice with its generated identifier blanked
SansId(inv) == [inv EXCEPT !.invoice_id = 0, !.summary[2] = 0]

\* C9: whatever the interleaving of the orders' coroutines, an order that
\* returned has the invoice it yields alone, apart from the invoice
\* identifier, and an order that raised has the exception it raises alone.
C9_OrdersAreIndependent ==
    \A o \in Orders :
        /\ pc[o] = "returned" =>
              /\ AloneOutcome(order_data[o]).ok
              /\ SansId(invoice[o]) = SansId(AloneOutcome(order_data[o]).value)
        /\ pc[o] = "raised" =>
              /\ ~AloneOutcome(order_data[o]).ok
              /\ error[o] = AloneOutcome(order_data[o]).exc

\* C9 witness: two different orders, each resumed while the other was
\* suspended, have both returned
C9_Witness ==
    \E o1 \in Orders, o2 \in Orders :
        /\ o1 # o2
        /\ order_data[o1] # order_data[o2]
        /\ pc[o1] = "returned" /\ pc[o2] = "returned"
        /\ overlapped[o1] /\ overlapped[o2]

\* C10: the first update execute produces is IN_PROGRESS with no artifact,
\* and when it has been produced execute has neither read the payload nor
\* raised; nothing is read, raised or completed before it.
C10_InProgressFirst ==
    /\ Len(updates) >= 1 =>
          /\ updates[1].status = "IN_PROGRESS"
          /\ updates[1].artifacts = << >>
    /\ gen_pc = "in_progress" =>
          /\ Len(updates) = 1
          /\ ~payload_read
          /\ gen_exc = "none"
    /\ (payload_read \/ gen_exc # "none") => Len(updates) >= 1

\* C10 witness: an executor has gone on to read the payload and complete
C10_Witness ==
    /\ agent = "BillingAgent"
    /\ gen_pc = "completed"
    /\ payload_read
    /\ Len(updates) = 2
    /\ updates[2].status = "COMPLETED"

Ended(o) == pc[o] \in {"returned", "raised"}

\* Two runs of process_order that were given equal payloads and have ended
\* agree: both returned invoices equal apart from the identifier, or both
\* raised the same exception
RunsAgree ==
    \A o1 \in Orders, o2 \in Orders :
        (order_data[o1] = order_data[o2] /\ Ended(o1) /\ Ended(o2)) =>
            /\ pc[o1] = pc[o2]
            /\ pc[o1] = "returned" => SansId(invoice[o1]) = SansId(invoice[o2])
            /\ pc[o1] = "raised" => error[o1] = error[o2]

\* C11: two runs of process_order on the same payload give outputs that are
\* equal in every field but the generated invoice identifier (and the summary
\* that embeds it), and no step of a run changes the payload it was given.
C11_IdempotentAndInputUnchanged ==
    /\ []RunsAgree
    /\ [][order_data' = order_data]_vars

\* C11 witness: the same payload was run twice, one run after the other, and
\* the two invoices differ in their identifier
C11_Witness ==
    \E o1 \in Orders, o2 \in Orders :
        /\ o1 # o2
        /\ order_data[o1] = order_data[o2]
        /\ pc[o1] = "returned" /\ pc[o2] = "returned"
        /\ ~overlapped[o1] /\ ~overlapped[o2]
        /\ invoice[o1].invoice_id # invoice[o2].invoice_id
        /\ invoice[o1].total > 0

\* C12: after any sequence of check_stock and reserve_item calls INVENTORY is
\* the table the module started with; every reserve_item call succeeds exactly
\* when the item is known and the quantity is at most the item's initial
\* stock, and every check_stock of a known item reports the initial stock.
C12_InventoryReadOnly ==
    /\ inventory = INVENTORY
    /\ last_call.tool = "reserve_item" =>
          LET item == Lower(last_call.item_name)
          IN  last_call.result.success <=>
                  /\ item \in DOMAIN INVENTORY
                  /\ last_call.quantity <= INVENTORY[item].stock
    /\ last_call.tool = "check_stock" =>
          LET item == Lower(last_call.item_name)
          IN  IF item \in DOMAIN INVENTORY
              THEN /\ last_call.result.stock = INVENTORY[item].stock
                   /\ last_call.result.available
              ELSE ~last_call.result.available

\* C12 witness: a reservation succeeded although the successful reservations
\* of the item, it included, add up to more than the item's stock
C12_Witness ==
    /\ last_call.tool = "reserve_item"
    /\ last_call.result.success
    /\ last_call.quantity >= 1
    /\ reserved[Lower(last_call.item_name)] - last_call.quantity >= 1
    /\ reserved[Lower(last_call.item_name)]
           > INVENTORY[Lower(last_call.item_name)].stock

====
